---- MODULE Spec2Model ----
(***************************************************************************)
(* Karaoke player: the job orchestration of KaraokePlayer.processSong, the *)
(* App-level processing flag it shares with every mounted player, and the  *)
(* transport timer of the player.                                          *)
(*                                                                         *)
(* Time is counted in poll periods (one unit = the 2000 ms of the polling  *)
(* interval).  Timers fire at their due time; several timers due at the    *)
(* same instant fire in any order; network replies arrive at any time.     *)
(* The backend is external: every reply it can give is possible.           *)
(***************************************************************************)
EXTENDS Integers, Sequences, FiniteSets, TLC

\* ---------------------------------------------------------------- bounds
\* Number of processSong calls (mount effects plus Try Again presses).
MaxAttempts == 2
\* Number of player mounts in the behaviours without Try Again (SpecFirst).
MaxMounts == 1
\* Status polls / result fetches of one attempt that may be outstanding.
MaxInFlight == 1
\* Length of the behaviour in poll periods.
MaxTime == 3
\* The 300000 ms watchdog in poll periods (300000 / 2000 = 150), scaled.
TimeoutTicks == 2

\* Length of the audio, in tenths of a second.
AudioLen == 5

\* Words of the lyrics that are grouped into lines, and how many of them
\* may end a line by punctuation or by a gap (SpecLines).
MaxWords == 14
MaxSpecial == 2

\* Phrases in a backend error message (SpecClassify).
MaxPhrases == 2

\* Tokens and scan times of the mapper applied on its own (SpecMapper).
MapTokens == 2
MapStart == 3

\* ------------------------------------------------------------- constants
\* Times are in tenths of a second: useState(0.2) of syncOffset.
SyncOffset == 2

\* (nextWord.start - word.end) > 0.8
LargeGap == 8

\* currentLine.length >= 12
LineLimit == 12

\* The songs of the search results (song.id).
Songs == { "songA", "songB" }
\* selectedSong = null, karaokeData = null
Null == "null"

\* --------------------------------------------------------- error texts
\* An error text (React state `error`) is a sequence of phrases; the empty
\* sequence is null (and the empty string, both falsy).  The leading cross
\* mark of the three user-friendly texts is left out.
NoError == << >>
TimeoutError == << "Processing timeout. Please try again." >>
StartFailedDefault == << "Failed to start processing" >>
LoadFailedDefault == << "Failed to load karaoke data" >>
ProcessingFailedDefault == << "Processing failed" >>
DownloadUnavailableText == << "This video cannot be downloaded. It may be restricted, age-gated, or unavailable in your region. Please try a different song." >>
ConversionFailedText == << "Failed to convert audio format. This video may be incompatible. Please try a different song." >>
SeparationFailedText == << "Failed to separate vocals and instrumental. Please try a different song." >>

\* String.prototype.includes on a message made of phrases.
Includes(msg, phrase) == \E i \in 1..Len(msg) : msg[i] = phrase

\* a || b on strings: the first operand unless it is falsy (empty).
OrElse(a, b) == IF a # << >> THEN a ELSE b

\* errorMsg = data.error || data.message || 'Processing failed'
errorMsgOf(data) == OrElse(data.error, OrElse(data.message, ProcessingFailedDefault))

\* Mutant: the separation rule is tried first.
userFriendlyErrorSeparationFirst(errorMsg) ==
  IF Includes(errorMsg, "Separation") \/ Includes(errorMsg, "Demucs")
    THEN SeparationFailedText
  ELSE IF Includes(errorMsg, "Downloaded file not found") \/ Includes(errorMsg, "downloaded file is empty")
    THEN DownloadUnavailableText
  ELSE IF Includes(errorMsg, "Failed to convert")
    THEN ConversionFailedText
  ELSE errorMsg

\* The if / else-if chain that makes the error user-friendly.
userFriendlyError(errorMsg) ==
  IF Includes(errorMsg, "Downloaded file not found") \/ Includes(errorMsg, "downloaded file is empty")
    THEN DownloadUnavailableText
  ELSE IF Includes(errorMsg, "Failed to convert")
    THEN ConversionFailedText
  ELSE IF Includes(errorMsg, "Separation") \/ Includes(errorMsg, "Demucs")
    THEN SeparationFailedText
  ELSE errorMsg

\* ------------------------------------------------------- backend replies
\* Replies of GET /status/{id}: the status and the optional error/message.
StatusReplies ==
  { [status |-> "processing", error |-> << >>, message |-> << >>],
    [status |-> "ready", error |-> << >>, message |-> << >>],
    [status |-> "failed", error |-> << "Failed to convert", "Demucs" >>, message |-> << >>],
    [status |-> "error", error |-> << >>, message |-> << "Failed to convert" >>] }

\* err.response?.data?.detail of a failed request: absent, or a text.
Details == { << >>, << "Internal Server Error" >> }

\* ------------------------------------------------------------------ state
VARIABLES
  now,           \* model clock, in poll periods
  selectedSong,  \* App: selectedSong (the song, or Null)
  isProcessing,  \* App: isProcessing
  session,       \* id of the mounted KaraokePlayer (0 = search view shown)
  nSessions,     \* players mounted so far
  karaokeData,   \* player: karaokeData (the song it is of, or Null)
  error,         \* player: error
  isPlaying,     \* player: isPlaying
  refLive,       \* player: intervalRef.current names a running timer
  nProgress,     \* running 100 ms progress timers created by players
  attempts,      \* one record per processSong call, in call order
  lyrics,        \* karaokeData.lyrics: the tokens the backend holds for a song
  audioTime,     \* audioRef.current.currentTime, in tenths of a second
  currentTime,   \* player: currentTime
  duration,      \* player: duration (0 until the metadata is loaded)
  currentWordIndex,   \* player: currentWordIndex (-1 = none)
  autoScrollEnabled,  \* player: autoScrollEnabled
  capturedIndex, \* currentWordIndex in the closure of the progress timer
  scrolled,      \* history: scrollIntoView calls issued by the last step
  lastEvent,     \* history: the player event handled last
  pin,           \* input of a function applied on its own
  pout           \* its result

\* The state of the lyric view and of the audio position.
viewVars == << lyrics, audioTime, currentTime, duration, currentWordIndex,
               autoScrollEnabled, capturedIndex, scrolled, lastEvent,
               pin, pout >>

vars == << now, selectedSong, isProcessing, session, nSessions, karaokeData,
           error, isPlaying, refLive, nProgress, attempts, viewVars >>

appVars == << selectedSong, isProcessing, session, nSessions >>
playVars == << isPlaying, refLive, nProgress, viewVars >>

Attempts == 1..Len(attempts)

\* A processSong call: its closure (session, song, the isProcessing prop of
\* the render that created it), its position, its two timers, the requests
\* it has outstanding, and what it has done so far.
NewAttempt(sess, song, proc) ==
  [ session |-> sess, song |-> song, isProcessing |-> proc,
    pc |-> "cache",            \* cache | start | polling | done
    pollInterval |-> FALSE,    \* the setInterval timer is running
    nextPoll |-> 0,            \* when it fires next
    timeoutSet |-> FALSE,      \* the setTimeout timer is pending
    deadline |-> 0,            \* when it fires
    nStatus |-> 0,             \* GET /status requests in flight
    nFetch |-> 0,              \* GET /karaoke requests (after ready) in flight
    startCalls |-> 0,          \* POST /process requests issued
    polls |-> 0,               \* GET /status requests issued
    pollErrors |-> 0,          \* GET /status requests that failed
    outcome |-> "none",        \* how the call itself ended: hit, loadfail, startfail
    detail |-> << >>,          \* the detail of the failed cache check or start request
    sawReady |-> FALSE,        \* a poll reply said ready
    sawFailed |-> FALSE,       \* a poll reply said failed / error
    stored |-> FALSE,          \* a callback stored the result
    timedOut |-> FALSE ]       \* the watchdog fired

Mounted(a) == session # 0 /\ attempts[a].session = session

\* React drops state updates of an unmounted component.
setError(a, e) == error' = IF Mounted(a) THEN e ELSE error
setKaraokeData(a) == karaokeData' = IF Mounted(a) THEN attempts[a].song ELSE karaokeData
keepData == UNCHANGED karaokeData

Upd(a, r) == attempts' = [attempts EXCEPT ![a] = r]

\* clearInterval(intervalRef.current): stops the timer the ref names, if it
\* still runs; the ref keeps the stale id.
clearProgress == /\ nProgress' = IF refLive THEN nProgress - 1 ELSE nProgress
                 /\ refLive' = FALSE

\* intervalRef.current = setInterval(updateProgress, 100)
startProgress == /\ nProgress' = nProgress + 1
                 /\ refLive' = TRUE

\* The <audio> element (and the controls) are rendered, so audioRef.current
\* is set, exactly when karaokeData && !isProcessing.
audioRef == session # 0 /\ karaokeData # Null /\ ~isProcessing

\* No value (of pin, pout, lastEvent).
None == [op |-> "none", arg |-> 0]

\* A player event: the handler, its argument, whether the active line was
\* inside the viewport when the index-change effect looked, and whether
\* currentWordIndex changed.
Ev(op, arg, visible, changed) ==
  [op |-> op, arg |-> arg, visible |-> visible, changed |-> changed]

\* useState initial values of the lyric view; the audio element at rest.
InitView ==
  /\ audioTime = 0
  /\ currentTime = 0
  /\ duration = 0
  /\ currentWordIndex = -1
  /\ autoScrollEnabled = TRUE
  /\ capturedIndex = -1
  /\ scrolled = 0
  /\ lastEvent = None
  /\ pin = None
  /\ pout = None

\* The App on the search view, before any song is selected.
InitApp ==
  /\ now = 0
  /\ selectedSong = Null
  /\ isProcessing = FALSE
  /\ session = 0
  /\ nSessions = 0
  /\ karaokeData = Null
  /\ error = NoError
  /\ isPlaying = FALSE
  /\ refLive = FALSE
  /\ nProgress = 0
  /\ attempts = << >>
  /\ InitView

Init == InitApp /\ lyrics = << >>

\* processSong up to its first await: setError(null), GET /karaoke/{id}.
processSong(sess, song, proc) ==
  /\ attempts' = Append(attempts, NewAttempt(sess, song, proc))
  /\ error' = NoError

\* A player is mounted, or unmounted: the state of the lyric view has its
\* initial values and there is no audio element.
mountView ==
  /\ audioTime' = 0
  /\ currentTime' = 0
  /\ duration' = 0
  /\ currentWordIndex' = -1
  /\ autoScrollEnabled' = TRUE
  /\ capturedIndex' = -1
  /\ scrolled' = 0
  /\ lastEvent' = None
  /\ UNCHANGED << lyrics, pin, pout >>

\* App.handleSongSelect, the mount of KaraokePlayer and its mount effect.
handleSongSelect(s) ==
  /\ session = 0
  /\ Len(attempts) < MaxAttempts
  /\ selectedSong' = s
  /\ isProcessing' = TRUE
  /\ session' = nSessions + 1
  /\ nSessions' = nSessions + 1
  /\ karaokeData' = Null
  /\ isPlaying' = FALSE
  /\ refLive' = FALSE
  /\ processSong(nSessions + 1, s, TRUE)
  /\ mountView
  /\ UNCHANGED << now, nProgress >>

\* App.handleBackToSearch, the unmount of KaraokePlayer and the cleanup of
\* its mount effect (clearInterval(intervalRef.current) only).
handleBackToSearch ==
  /\ session # 0
  /\ selectedSong' = Null
  /\ isProcessing' = FALSE
  /\ session' = 0
  /\ clearProgress
  /\ karaokeData' = Null
  /\ error' = NoError
  /\ isPlaying' = FALSE
  /\ mountView
  /\ UNCHANGED << now, nSessions, attempts >>

\* The Try Again button: onClick={processSong} of the current render.
tryAgain ==
  /\ session # 0
  /\ error # NoError
  /\ Len(attempts) < MaxAttempts
  /\ processSong(session, selectedSong, isProcessing)
  /\ UNCHANGED << now, appVars, karaokeData, playVars >>

\* Mutant: the cache hit stores the result but leaves the processing flag set.
cacheHitKeepsFlag(a) ==
  /\ attempts[a].pc = "cache"
  /\ setKaraokeData(a)
  /\ Upd(a, [attempts[a] EXCEPT !.pc = "done", !.outcome = "hit"])
  /\ UNCHANGED << now, appVars, error, playVars >>

\* GET /karaoke/{id} of the cache check succeeded.
cacheHit(a) ==
  /\ attempts[a].pc = "cache"
  /\ setKaraokeData(a)
  /\ isProcessing' = FALSE
  /\ Upd(a, [attempts[a] EXCEPT !.pc = "done", !.outcome = "hit"])
  /\ UNCHANGED << now, selectedSong, session, nSessions, error, playVars >>

\* The cache check answered 404: POST /process/{id}.
cacheNotFound(a) ==
  /\ attempts[a].pc = "cache"
  /\ Upd(a, [attempts[a] EXCEPT !.pc = "start", !.startCalls = @ + 1])
  /\ UNCHANGED << now, appVars, karaokeData, error, playVars >>

\* The cache check failed otherwise.
cacheFailed(a, detail) ==
  /\ attempts[a].pc = "cache"
  /\ setError(a, OrElse(detail, LoadFailedDefault))
  /\ isProcessing' = FALSE
  /\ Upd(a, [attempts[a] EXCEPT !.pc = "done", !.outcome = "loadfail", !.detail = detail])
  /\ UNCHANGED << now, selectedSong, session, nSessions, karaokeData, playVars >>

\* POST /process/{id} succeeded: setInterval(poll, 2000), setTimeout(.., 300000).
startAccepted(a) ==
  /\ attempts[a].pc = "start"
  /\ Upd(a, [attempts[a] EXCEPT !.pc = "polling",
                                 !.pollInterval = TRUE, !.nextPoll = now + 1,
                                 !.timeoutSet = TRUE, !.deadline = now + TimeoutTicks])
  /\ UNCHANGED << now, appVars, karaokeData, error, playVars >>

\* Mutant: the timers are set before the start request is awaited, so a
\* failed start leaves them running.
startFailedWithTimers(a, detail) ==
  /\ attempts[a].pc = "start"
  /\ setError(a, OrElse(detail, StartFailedDefault))
  /\ isProcessing' = FALSE
  /\ Upd(a, [attempts[a] EXCEPT !.pc = "done", !.outcome = "startfail", !.detail = detail,
                                 !.pollInterval = TRUE, !.nextPoll = now + 1,
                                 !.timeoutSet = TRUE, !.deadline = now + TimeoutTicks])
  /\ UNCHANGED << now, selectedSong, session, nSessions, karaokeData, playVars >>

\* POST /process/{id} failed.
startFailed(a, detail) ==
  /\ attempts[a].pc = "start"
  /\ setError(a, OrElse(detail, StartFailedDefault))
  /\ isProcessing' = FALSE
  /\ Upd(a, [attempts[a] EXCEPT !.pc = "done", !.outcome = "startfail", !.detail = detail])
  /\ UNCHANGED << now, selectedSong, session, nSessions, karaokeData, playVars >>

\* The polling interval fires: GET /status/{id} is sent.
pollTick(a) ==
  /\ attempts[a].pollInterval
  /\ attempts[a].nextPoll = now
  /\ attempts[a].nStatus + attempts[a].nFetch < MaxInFlight
  /\ Upd(a, [attempts[a] EXCEPT !.nStatus = @ + 1, !.polls = @ + 1,
                                 !.nextPoll = now + 1])
  /\ UNCHANGED << now, appVars, karaokeData, error, playVars >>

\* A status reply `ready`: clearInterval(pollInterval), GET /karaoke/{id}.
statusReady(a) ==
  /\ Upd(a, [attempts[a] EXCEPT !.nStatus = @ - 1, !.nFetch = @ + 1,
                                 !.pollInterval = FALSE, !.sawReady = TRUE])
  /\ UNCHANGED << isProcessing, karaokeData, error >>

\* A status reply `failed` or `error`: clearInterval, setError, flag cleared.
statusFailed(a, data) ==
  /\ Upd(a, [attempts[a] EXCEPT !.nStatus = @ - 1,
                                 !.pollInterval = FALSE, !.sawFailed = TRUE])
  /\ setError(a, userFriendlyError(errorMsgOf(data)))
  /\ isProcessing' = FALSE
  /\ keepData

\* Any other status: the callback ends.
statusOther(a) ==
  /\ Upd(a, [attempts[a] EXCEPT !.nStatus = @ - 1])
  /\ UNCHANGED << isProcessing, karaokeData, error >>

\* A reply to GET /status/{id} arrives.
statusReply(a, data) ==
  /\ attempts[a].nStatus > 0
  /\ IF data.status = "ready" THEN statusReady(a)
     ELSE IF data.status = "failed" \/ data.status = "error" THEN statusFailed(a, data)
     ELSE statusOther(a)
  /\ UNCHANGED << now, selectedSong, session, nSessions, playVars >>

\* Mutant: a failed status request stops the polling like a failed status.
statusErrorStopsPolling(a) ==
  /\ attempts[a].nStatus > 0
  /\ Upd(a, [attempts[a] EXCEPT !.nStatus = @ - 1, !.pollErrors = @ + 1,
                                 !.pollInterval = FALSE])
  /\ UNCHANGED << now, appVars, karaokeData, error, playVars >>

\* GET /status/{id} failed: catch (pollErr) logs it.
statusError(a) ==
  /\ attempts[a].nStatus > 0
  /\ Upd(a, [attempts[a] EXCEPT !.nStatus = @ - 1, !.pollErrors = @ + 1])
  /\ UNCHANGED << now, appVars, karaokeData, error, playVars >>

\* GET /karaoke/{id} after `ready` succeeded.
fetchOk(a) ==
  /\ attempts[a].nFetch > 0
  /\ setKaraokeData(a)
  /\ isProcessing' = FALSE
  /\ Upd(a, [attempts[a] EXCEPT !.nFetch = @ - 1, !.stored = TRUE])
  /\ UNCHANGED << now, selectedSong, session, nSessions, error, playVars >>

\* GET /karaoke/{id} after `ready` failed: the same catch (pollErr) logs it.
fetchFailed(a) ==
  /\ attempts[a].nFetch > 0
  /\ Upd(a, [attempts[a] EXCEPT !.nFetch = @ - 1])
  /\ UNCHANGED << now, appVars, karaokeData, error, playVars >>

\* The setTimeout callback: clearInterval; if (isProcessing) of the closure.
timeoutFire(a) ==
  /\ attempts[a].timeoutSet
  /\ attempts[a].deadline = now
  /\ Upd(a, [attempts[a] EXCEPT !.timeoutSet = FALSE, !.pollInterval = FALSE,
                                 !.timedOut = TRUE])
  /\ IF attempts[a].isProcessing
       THEN setError(a, TimeoutError) /\ isProcessing' = FALSE
       ELSE UNCHANGED << error, isProcessing >>
  /\ UNCHANGED << now, selectedSong, session, nSessions, karaokeData, playVars >>

\* handlePlayPause (button, or space key under the same condition).
handlePlayPause ==
  /\ audioRef
  /\ IF isPlaying THEN clearProgress ELSE startProgress
  /\ isPlaying' = ~isPlaying
  /\ capturedIndex' = IF isPlaying THEN capturedIndex ELSE currentWordIndex
  /\ audioTime' = IF ~isPlaying /\ audioTime = AudioLen THEN 0 ELSE audioTime
  /\ lastEvent' = Ev("playPause", 0, FALSE, FALSE)
  /\ scrolled' = 0
  /\ UNCHANGED << now, appVars, karaokeData, error, attempts, lyrics,
                  currentTime, duration, currentWordIndex, autoScrollEnabled,
                  pin, pout >>

\* onEnded of the <audio> element.
onEnded ==
  /\ audioRef
  /\ isPlaying
  /\ isPlaying' = FALSE
  /\ clearProgress
  /\ lastEvent' = Ev("ended", 0, FALSE, FALSE)
  /\ scrolled' = 0
  /\ UNCHANGED << now, appVars, karaokeData, error, attempts, lyrics,
                  audioTime, currentTime, duration, currentWordIndex,
                  autoScrollEnabled, capturedIndex, pin, pout >>

\* A timer is due at the current instant and has not fired yet.
TimerDue ==
  \E a \in Attempts :
    \/ attempts[a].pollInterval /\ attempts[a].nextPoll <= now
    \/ attempts[a].timeoutSet /\ attempts[a].deadline <= now

\* One poll period passes.
Tick ==
  /\ now < MaxTime
  /\ ~TimerDue
  /\ now' = now + 1
  /\ UNCHANGED << appVars, karaokeData, error, playVars, attempts >>

\* The callbacks of processSong: replies and timers of any attempt.
JobStep ==
  \/ \E a \in Attempts : cacheHit(a)
  \/ \E a \in Attempts : cacheNotFound(a)
  \/ \E a \in Attempts, d \in Details : cacheFailed(a, d)
  \/ \E a \in Attempts : startAccepted(a)
  \/ \E a \in Attempts, d \in Details : startFailed(a, d)
  \/ \E a \in Attempts : pollTick(a)
  \/ \E a \in Attempts, data \in StatusReplies : statusReply(a, data)
  \/ \E a \in Attempts : statusError(a)
  \/ \E a \in Attempts : fetchOk(a)
  \/ \E a \in Attempts : fetchFailed(a)
  \/ \E a \in Attempts : timeoutFire(a)
  \/ Tick

Next ==
  \/ \E s \in Songs : handleSongSelect(s)
  \/ handleBackToSearch
  \/ tryAgain
  \/ JobStep

\* Songs are selected, processed, retried and left.
Spec == Init /\ [][Next]_vars

\* The same without Try Again: every attempt is the first of its player.
NextFirst ==
  \/ \E s \in Songs : handleSongSelect(s) /\ Len(attempts') <= MaxMounts
  \/ handleBackToSearch
  \/ JobStep

SpecFirst == Init /\ [][NextFirst]_vars

\* The player with its transport handlers.
NextPlayer == Next \/ handlePlayPause \/ onEnded

SpecPlayer == Init /\ [][NextPlayer]_vars

\* ------------------------------------------------- the clock mapper alone
\* Everything but the input and the result of a function applied alone.
restVars == << now, appVars, karaokeData, error, isPlaying, refLive, nProgress,
               attempts, lyrics, audioTime, currentTime, duration,
               currentWordIndex, autoScrollEnabled, capturedIndex, scrolled,
               lastEvent >>

\* A token: the word, its start and its end (start <= end).
Token(text, start, end) == [text |-> text, start |-> start, end |-> end]

\* Token sequences for the mapper, in any order of start.
MapperTokens ==
  { Token(<< "l", "a" >>, st, st + d) : st \in 0..MapStart, d \in 0..1 }

MapperLyrics == UNION { [1..n -> MapperTokens] : n \in 0..MapTokens }

\* The for loop of updateProgress from position i (1-based) on; the result
\* is the 0-based foundIndex.
RECURSIVE scanFrom(_, _, _)
scanFrom(tokens, syncedTime, i) ==
  IF i > Len(tokens) THEN -1
  ELSE IF syncedTime >= tokens[i].start
    THEN IF i + 1 <= Len(tokens)
           THEN IF syncedTime < tokens[i + 1].start
                  THEN i - 1
                  ELSE scanFrom(tokens, syncedTime, i + 1)
           ELSE i - 1
    ELSE scanFrom(tokens, syncedTime, i + 1)

\* Mutant: a token is active only until its own end.
findActiveTokenUntilEnd(tokens, actualTime, syncOffset) ==
  LET syncedTime == actualTime + syncOffset
      hits == { i \in 1..Len(tokens) :
                  tokens[i].start <= syncedTime /\ syncedTime <= tokens[i].end }
  IN IF hits = {} THEN -1 ELSE (CHOOSE i \in hits : \A j \in hits : i <= j) - 1

\* Mutant: the offset is subtracted from the audio time.
findActiveTokenLate(tokens, actualTime, syncOffset) ==
  scanFrom(tokens, actualTime - syncOffset, 1)

\* foundIndex of updateProgress: syncedTime = actualTime + syncOffset, then
\* the scan.
findActiveToken(tokens, actualTime, syncOffset) ==
  scanFrom(tokens, actualTime + syncOffset, 1)

InitMapper == InitApp /\ lyrics \in MapperLyrics

\* The mapper is applied to a time, at most twice with the same offset.
applyFind(t, off) ==
  /\ pin.op = "none" \/ (pin.op = "scan" /\ pin.off = off /\ Len(pin.t) < 2)
  /\ pin' = [op |-> "scan", off |-> off,
             t |-> IF pin.op = "none" THEN << t >> ELSE Append(pin.t, t)]
  /\ pout' = [op |-> "found",
              v |-> Append(IF pout.op = "none" THEN << >> ELSE pout.v,
                           findActiveToken(lyrics, t, off))]
  /\ UNCHANGED restVars

NextMapper == \E t \in 0..(MapStart + 1), off \in {0, SyncOffset} : applyFind(t, off)

SpecMapper == InitMapper /\ [][NextMapper]_vars

\* ------------------------------------------------------- the lyric view
\* karaokeData.lyrics of the songs played in the view: one whose first word
\* starts within the sync offset, one whose first word starts later, and
\* one with two words of the same start.  All are sorted by start.
ViewLyrics ==
  { << Token(<< "l", "a" >>, 1, 2), Token(<< "l", "a" >>, 4, 5) >>,
    << Token(<< "l", "a" >>, 3, 4), Token(<< "l", "a" >>, 5, 5) >>,
    << Token(<< "l", "a" >>, 3, 3), Token(<< "l", "a" >>, 3, 4) >> }

\* audio.currentTime = t: the media element keeps the position inside the
\* audio.
seek(t) == IF t < 0 THEN 0 ELSE IF t > AudioLen THEN AudioLen ELSE t

\* Mutant: an index change to a line outside the viewport leaves the flag.
indexChangeEffectKeepsFlag(auto, visible) ==
  IF visible
    THEN autoScrollEnabled' = TRUE /\ scrolled' = 1
    ELSE autoScrollEnabled' = auto /\ scrolled' = 0

\* useEffect on [currentWordIndex], with the autoScrollEnabled of the render
\* it runs after: currentWordRef.current is the line of the new index.
indexChangeEffect(auto, visible) ==
  IF visible
    THEN autoScrollEnabled' = TRUE /\ scrolled' = 1
    ELSE autoScrollEnabled' = (IF auto THEN FALSE ELSE auto) /\ scrolled' = 0

\* setCurrentWordIndex(index) in a batch that leaves autoScrollEnabled at
\* auto, the render, and the effect if the index changed.
setCurrentWordIndex(index, auto, visible) ==
  /\ currentWordIndex' = index
  /\ IF index # currentWordIndex
       THEN indexChangeEffect(auto, visible)
       ELSE autoScrollEnabled' = auto /\ scrolled' = 0

\* updateProgress of a render in which currentWordIndex was index.
updateProgress(index, visible) ==
  /\ audioRef
  /\ currentTime' = audioTime
  /\ LET foundIndex == findActiveToken(lyrics, audioTime, SyncOffset)
     IN IF foundIndex # -1 /\ foundIndex # index
          THEN setCurrentWordIndex(foundIndex, autoScrollEnabled, visible)
          ELSE UNCHANGED << currentWordIndex, autoScrollEnabled >> /\ scrolled' = 0

\* The 100 ms timer fires: updateProgress of the render that started it.
progressTick(visible) ==
  /\ nProgress > 0
  /\ updateProgress(capturedIndex, visible)
  /\ lastEvent' = Ev("tick", 0, visible, currentWordIndex' # currentWordIndex)
  /\ UNCHANGED << now, appVars, karaokeData, error, attempts, isPlaying, refLive,
                  nProgress, lyrics, audioTime, duration, capturedIndex, pin, pout >>

\* onTimeUpdate={updateProgress}: updateProgress of the current render.
onTimeUpdate(visible) ==
  /\ updateProgress(currentWordIndex, visible)
  /\ lastEvent' = Ev("timeupdate", 0, visible, currentWordIndex' # currentWordIndex)
  /\ UNCHANGED << now, appVars, karaokeData, error, attempts, isPlaying, refLive,
                  nProgress, lyrics, audioTime, duration, capturedIndex, pin, pout >>

\* onLoadedMetadata: setDuration(audioRef.current.duration).
onLoadedMetadata ==
  /\ audioRef
  /\ duration = 0
  /\ duration' = AudioLen
  /\ lastEvent' = Ev("loadedmetadata", 0, FALSE, FALSE)
  /\ scrolled' = 0
  /\ UNCHANGED << now, appVars, karaokeData, error, attempts, isPlaying, refLive,
                  nProgress, lyrics, audioTime, currentTime, currentWordIndex,
                  autoScrollEnabled, capturedIndex, pin, pout >>

\* The audio plays on by a tenth of a second.
playAdvance ==
  /\ audioRef
  /\ isPlaying
  /\ audioTime < AudioLen
  /\ audioTime' = audioTime + 1
  /\ lastEvent' = Ev("advance", 0, FALSE, FALSE)
  /\ scrolled' = 0
  /\ UNCHANGED << now, appVars, karaokeData, error, attempts, isPlaying, refLive,
                  nProgress, lyrics, currentTime, duration, currentWordIndex,
                  autoScrollEnabled, capturedIndex, pin, pout >>

\* The audio reaches its end: the ended event.
audioEnds == audioTime = AudioLen /\ onEnded

\* handleProgressClick at the fraction newTime / duration of the bar.
handleProgressClick(newTime) ==
  /\ audioRef
  /\ duration # 0
  /\ audioTime' = seek(newTime)
  /\ currentTime' = newTime
  /\ lastEvent' = Ev("progressClick", newTime, FALSE, FALSE)
  /\ scrolled' = 0
  /\ UNCHANGED << now, appVars, karaokeData, error, attempts, isPlaying, refLive,
                  nProgress, lyrics, duration, currentWordIndex, autoScrollEnabled,
                  capturedIndex, pin, pout >>

\* Mutant: the click seeks to the start of the word itself.
seekTargetAtStart(word) == word.start

\* targetTime of handleLyricClick.
seekTarget(word) == word.start - SyncOffset

\* Mutant: the click starts playback and a timer whatever isPlaying is.
autoPlayAlways ==
  /\ startProgress
  /\ isPlaying' = TRUE
  /\ capturedIndex' = currentWordIndex

\* handleLyricClick: auto-play if not already playing.
autoPlay ==
  IF ~isPlaying
    THEN /\ startProgress
         /\ isPlaying' = TRUE
         /\ capturedIndex' = currentWordIndex
    ELSE UNCHANGED << isPlaying, refLive, nProgress, capturedIndex >>

\* handleLyricClick(word, index) of the word at position index + 1.
handleLyricClick(index, visible) ==
  /\ audioRef
  /\ index + 1 \in 1..Len(lyrics)
  /\ audioTime' = seek(seekTarget(lyrics[index + 1]))
  /\ currentTime' = seekTarget(lyrics[index + 1])
  /\ setCurrentWordIndex(index, TRUE, visible)
  /\ autoPlay
  /\ lastEvent' = Ev("lyricClick", index, visible, index # currentWordIndex)
  /\ UNCHANGED << now, appVars, karaokeData, error, attempts, lyrics, duration,
                  pin, pout >>

\* handleScroll: a scroll event of the window.
handleScroll ==
  /\ session # 0
  /\ autoScrollEnabled' = (IF autoScrollEnabled THEN FALSE ELSE autoScrollEnabled)
  /\ lastEvent' = Ev("scroll", 0, FALSE, FALSE)
  /\ scrolled' = 0
  /\ UNCHANGED << now, appVars, karaokeData, error, attempts, isPlaying, refLive,
                  nProgress, lyrics, audioTime, currentTime, duration,
                  currentWordIndex, capturedIndex, pin, pout >>

InitLyricView == InitApp /\ lyrics \in ViewLyrics

\* A player whose song is in the cache, with its lyric view and controls.
NextView ==
  \/ \E s \in Songs : handleSongSelect(s) /\ Len(attempts') <= MaxMounts
  \/ handleBackToSearch
  \/ \E a \in Attempts : cacheHit(a)
  \/ onLoadedMetadata
  \/ handlePlayPause
  \/ playAdvance
  \/ audioEnds
  \/ \E t \in 0..AudioLen : handleProgressClick(t)
  \/ \E i \in 0..1, v \in BOOLEAN : handleLyricClick(i, v)
  \/ \E v \in BOOLEAN : progressTick(v)
  \/ \E v \in BOOLEAN : onTimeUpdate(v)
  \/ handleScroll

SpecView == InitLyricView /\ [][NextView]_vars

\* ----------------------------------------------------- line grouping alone
\* /[.!?,;:]$/.test(word.text), a text being a sequence of characters.
Punctuation == {".", "!", "?", ",", ";", ":"}

endsWithPunctuation(text) == Len(text) > 0 /\ text[Len(text)] \in Punctuation

\* Mutant: the last word does not close its line.
closesLineUnlessLast(words, index, lineLength) ==
  LET word == words[index]
      hasNext == index + 1 <= Len(words)
      largeGap == hasNext /\ (words[index + 1].start - word.end) > LargeGap
      lineTooLong == lineLength >= LineLimit
  IN endsWithPunctuation(word.text) \/ largeGap \/ lineTooLong

\* Mutant: a gap of exactly the threshold closes the line too.
closesLineAtThreshold(words, index, lineLength) ==
  LET word == words[index]
      hasNext == index + 1 <= Len(words)
      largeGap == hasNext /\ (words[index + 1].start - word.end) >= LargeGap
      lineTooLong == lineLength >= LineLimit
  IN endsWithPunctuation(word.text) \/ largeGap \/ lineTooLong \/ ~hasNext

\* The condition under which the word at position index (1-based) closes
\* the current line, which has lineLength words with it.
closesLine(words, index, lineLength) ==
  LET word == words[index]
      hasNext == index + 1 <= Len(words)
      largeGap == hasNext /\ (words[index + 1].start - word.end) > LargeGap
      lineTooLong == lineLength >= LineLimit
  IN endsWithPunctuation(word.text) \/ largeGap \/ lineTooLong \/ ~hasNext

\* The forEach of groupWordsIntoLines from position index on.
RECURSIVE groupFrom(_, _, _, _)
groupFrom(words, index, currentLine, lines) ==
  IF index > Len(words) THEN lines
  ELSE LET word == words[index]
           line == Append(currentLine,
                          [text |-> word.text, start |-> word.start,
                           end |-> word.end, index |-> index - 1])
       IN IF closesLine(words, index, Len(line))
            THEN groupFrom(words, index + 1, << >>, Append(lines, line))
            ELSE groupFrom(words, index + 1, line, lines)

groupWordsIntoLines(words) == groupFrom(words, 1, << >>, << >>)

\* Kinds of words of the lyrics to be grouped: a plain word, a word ending
\* with punctuation, a word with punctuation inside, a word followed by a
\* gap just above the threshold, and one followed by a gap at the threshold.
SpecialKinds == {"comma", "inner", "bigGap", "edgeGap"}

KindAt(special, k) == IF k \in DOMAIN special THEN special[k] ELSE "plain"

TextOf(kind) ==
  CASE kind = "comma" -> << "l", "a", "," >>
    [] kind = "inner" -> << "l", ",", "a" >>
    [] OTHER -> << "l", "a" >>

GapAfter(kind) ==
  CASE kind = "bigGap" -> LargeGap + 1
    [] kind = "edgeGap" -> LargeGap
    [] OTHER -> 1

RECURSIVE StartOf(_, _)
StartOf(special, k) ==
  IF k = 1 THEN 0
  ELSE StartOf(special, k - 1) + 1 + GapAfter(KindAt(special, k - 1))

WordsOf(n, special) ==
  [k \in 1..n |-> Token(TextOf(KindAt(special, k)), StartOf(special, k),
                        StartOf(special, k) + 1)]

\* Lyrics of up to MaxWords words of which at most MaxSpecial are not plain.
SpecialWords(n) ==
  UNION { [S -> SpecialKinds] :
            S \in { T \in SUBSET (1..n) : Cardinality(T) <= MaxSpecial } }

LineLyrics(n) == { WordsOf(n, special) : special \in SpecialWords(n) }

InitLines == InitApp /\ \E n \in 0..MaxWords : lyrics \in LineLyrics(n)

\* renderLyrics groups the words.
applyGroup ==
  /\ pin.op = "none"
  /\ pin' = [op |-> "group", arg |-> Len(lyrics)]
  /\ pout' = [op |-> "lines", v |-> groupWordsIntoLines(lyrics)]
  /\ UNCHANGED restVars

NextLines == applyGroup

SpecLines == InitLines /\ [][NextLines]_vars

\* ------------------------------------------------ error classification alone
\* Phrases of backend messages: the five triggers, a trigger in another
\* case, and a phrase that is no trigger.
Phrases ==
  { "Downloaded file not found", "downloaded file is empty", "Failed to convert",
    "Separation", "Demucs", "separation", "Whisper failed" }

Messages == UNION { [1..n -> Phrases] : n \in 0..MaxPhrases }

\* statusResponse.data of a failed job.
FailedReply(e, m) == [status |-> "failed", error |-> e, message |-> m]

\* The failed branch computes the text it shows for a reply.
applyClassify(data) ==
  /\ pin' = [op |-> "classify", data |-> data]
  /\ pout' = [op |-> "shown", v |-> userFriendlyError(errorMsgOf(data))]
  /\ UNCHANGED restVars

\* One reply is classified.
NextClassify ==
  /\ pin.op = "none"
  /\ \E e \in Messages, m \in Messages : applyClassify(FailedReply(e, m))

SpecClassify == Init /\ [][NextClassify]_vars

\* ------------------------------------------------------------ properties
\* Steps of one attempt, read off its history.
SawReady(a) == attempts[a].sawReady
SawFailed(a) == attempts[a].sawFailed
TimedOut(a) == attempts[a].timedOut
WatchdogFires(a) == ~attempts[a].timedOut /\ attempts'[a].timedOut
CallbackOf(a) == attempts'[a] # attempts[a]
NoTimers(r) == ~r.pollInterval /\ ~r.timeoutSet
NoPolling(r) == r.polls = 0 /\ r.nStatus = 0 /\ r.nFetch = 0

\* A session-level fact the handlers rely on: while an error is shown the
\* processing flag is clear, so Try Again always captures isProcessing = false.
ErrorShownMeansNotProcessing == session # 0 /\ error # NoError => ~isProcessing

\* C1: once a status poll of the mounted attempt answered `ready` inside
\* its window and no request of it is in flight any more, the job is ready:
\* the result is stored and the processing flag is cleared.
ReadyStatusReachesReady ==
  \A a \in Attempts :
    (Mounted(a) /\ SawReady(a) /\ ~TimedOut(a)
       /\ attempts[a].nStatus = 0 /\ attempts[a].nFetch = 0)
    => (karaokeData = attempts[a].song /\ ~isProcessing)

\* C2: when the watchdog of a mounted attempt fires and no poll of it has
\* answered ready or failed/error, the job becomes failed with the timeout
\* error, the flag is cleared and the polling is stopped.
TimeoutFailsEveryAttempt ==
  [][\A a \in Attempts :
       (WatchdogFires(a) /\ Mounted(a) /\ ~SawReady(a) /\ ~SawFailed(a))
       => (error' = TimeoutError /\ ~isProcessing' /\ ~attempts'[a].pollInterval)]_vars

\* C3: in a step that is not a Try Again press (and not a mount or
\* teardown), a ready job (result, no error) stays ready and a failed job
\* (error) stays failed and gets no result.
TerminalStatusIsFinal ==
  [][(session' = session /\ Len(attempts') = Len(attempts))
       => /\ (karaokeData # Null /\ error = NoError)
               => (karaokeData' = karaokeData /\ error' = NoError)
          /\ (error # NoError)
               => (error' # NoError /\ karaokeData' = karaokeData)]_vars

\* C4: an attempt that made a terminal transition (stored the result, saw
\* failed/error, or timed out) has neither its polling timer nor its
\* timeout timer pending.
TerminalCancelsBothTimers ==
  \A a \in Attempts :
    (attempts[a].stored \/ SawFailed(a) \/ TimedOut(a)) => NoTimers(attempts[a])

\* C5: an attempt whose player is no longer mounted has no polling timer
\* and no watchdog pending, and no progress timer runs without a player.
TeardownCancelsTimers ==
  /\ \A a \in Attempts : ~Mounted(a) => NoTimers(attempts[a])
  /\ session = 0 => nProgress = 0

\* C6: at no time are two polling loops active.
OnePollingLoop ==
  Cardinality({ a \in Attempts : attempts[a].pollInterval }) <= 1

\* C7: after the watchdog of the mounted attempt has failed the job with
\* the timeout error, a late reply of that attempt changes neither the
\* result nor the error.
WatchdogWins ==
  [][\A a \in Attempts :
       (TimedOut(a) /\ Mounted(a) /\ error = TimeoutError /\ session' = session
          /\ Len(attempts') = Len(attempts) /\ CallbackOf(a))
       => (karaokeData' = karaokeData /\ error' = error)]_vars

\* C8: the step in which the cache check of an attempt succeeds stores the
\* result (in the mounted player) and clears the processing flag; an attempt
\* that ended by a cache hit never issued a start request or a status poll
\* and never has a timer.
CacheHitGoesStraightToReady ==
  [][\A a \in Attempts :
       /\ (attempts[a].outcome # "hit" /\ attempts'[a].outcome = "hit")
            => /\ Mounted(a) => karaokeData' = attempts[a].song
               /\ ~isProcessing'
               /\ attempts'[a].pc = "done"
       /\ attempts'[a].outcome = "hit"
            => /\ attempts'[a].startCalls = 0
               /\ NoPolling(attempts'[a])
               /\ NoTimers(attempts'[a])]_vars

CacheHitWitness ==
  \E a \in Attempts :
    /\ attempts[a].outcome = "hit" /\ Mounted(a)
    /\ karaokeData = attempts[a].song /\ ~isProcessing /\ error = NoError
    /\ now = MaxTime

\* C9: the step in which the start request of an attempt fails sets the
\* error to the backend detail, else to 'Failed to start processing', and
\* clears the flag; such an attempt never polls and never has a timer.  The
\* step in which the cache check fails otherwise sets the detail, else
\* 'Failed to load karaoke data'; such an attempt never issued a start
\* request either.
RequestFailureFailsDirectly ==
  [][\A a \in Attempts :
       /\ (attempts[a].outcome = "none" /\ attempts'[a].outcome = "startfail")
            => /\ Mounted(a) => error' = OrElse(attempts'[a].detail, StartFailedDefault)
               /\ ~isProcessing'
       /\ (attempts[a].outcome = "none" /\ attempts'[a].outcome = "loadfail")
            => /\ Mounted(a) => error' = OrElse(attempts'[a].detail, LoadFailedDefault)
               /\ ~isProcessing'
       /\ attempts'[a].outcome = "startfail"
            => /\ attempts'[a].startCalls = 1
               /\ NoPolling(attempts'[a])
               /\ NoTimers(attempts'[a])
       /\ attempts'[a].outcome = "loadfail"
            => /\ attempts'[a].startCalls = 0
               /\ NoPolling(attempts'[a])
               /\ NoTimers(attempts'[a])]_vars

StartFailedWitness ==
  \E a \in Attempts :
    /\ attempts[a].outcome = "startfail" /\ Mounted(a)
    /\ error = StartFailedDefault /\ ~isProcessing
    /\ now = MaxTime

\* C10: the step in which a status request of an attempt fails changes
\* neither the error, the result nor the processing flag and leaves both
\* timers as they were; a running polling timer is always due within one
\* period, and it is stopped only in a step after which the attempt has
\* seen ready or failed/error or has timed out.
PollFailureIsIgnored ==
  [][\A a \in Attempts :
       /\ attempts'[a].pollErrors > attempts[a].pollErrors
            => /\ error' = error /\ karaokeData' = karaokeData
               /\ isProcessing' = isProcessing
               /\ attempts'[a].pollInterval = attempts[a].pollInterval
               /\ attempts'[a].nextPoll = attempts[a].nextPoll
               /\ attempts'[a].timeoutSet = attempts[a].timeoutSet
       /\ attempts'[a].pollInterval
            => (attempts'[a].nextPoll >= now' /\ attempts'[a].nextPoll <= now' + 1)
       /\ (attempts[a].pollInterval /\ ~attempts'[a].pollInterval)
            => (attempts'[a].sawReady \/ attempts'[a].sawFailed \/ attempts'[a].timedOut)]_vars

PollFailureWitness ==
  \E a \in Attempts :
    /\ attempts[a].pollErrors > 0 /\ attempts[a].polls >= 2
    /\ attempts[a].pollInterval /\ attempts[a].timeoutSet
    /\ Mounted(a) /\ isProcessing /\ error = NoError /\ karaokeData = Null

\* C11: an attempt started by Try Again (a later attempt of the same
\* player) that found no cached result and whose start request succeeded is
\* in processing like a first attempt: while its polling runs and its
\* watchdog is pending the processing flag is set, also in the closure its
\* watchdog will test.
IsRetry(a) == \E b \in Attempts : b < a /\ attempts[b].session = attempts[a].session

RetryIsObservablyProcessing ==
  \A a \in Attempts :
    (IsRetry(a) /\ Mounted(a) /\ attempts[a].pc = "polling"
       /\ attempts[a].pollInterval /\ attempts[a].timeoutSet)
    => (isProcessing /\ attempts[a].isProcessing)

\* C13: the index the scan finds is the first i with syncedTime >=
\* tokens[i].start and (i last or syncedTime < tokens[i+1].start), whatever
\* the ends are, and -1 when there is none (empty sequence, or a time
\* before the first start).
ActiveSet(tokens, syncedTime) ==
  { i \in 1..Len(tokens) :
      /\ syncedTime >= tokens[i].start
      /\ (i = Len(tokens) \/ syncedTime < tokens[i + 1].start) }

ReferenceIndex(tokens, syncedTime) ==
  LET S == ActiveSet(tokens, syncedTime)
  IN IF S = {} THEN -1 ELSE (CHOOSE i \in S : \A j \in S : i <= j) - 1

ScanEqualsReference ==
  pout.op = "found" =>
    \A k \in 1..Len(pout.v) :
      pout.v[k] = ReferenceIndex(lyrics, pin.t[k] + pin.off)

ScanWitness ==
  /\ pout.op = "found" /\ Len(pout.v) = 2
  /\ Len(lyrics) = 2 /\ lyrics[1].end < lyrics[2].start - 1
  /\ pin.t[1] + pin.off > lyrics[1].end /\ pout.v[1] = 0
  /\ pout.v[2] = -1

\* C15: for tokens sorted by start, of two scans with syncedTime1 <=
\* syncedTime2 the second finds no lower index than the first.
SortedByStart(tokens) ==
  \A i \in 1..(Len(tokens) - 1) : tokens[i].start <= tokens[i + 1].start

ScanIsMonotonic ==
  (pout.op = "found" /\ Len(pout.v) = 2 /\ SortedByStart(lyrics) /\ pin.t[1] <= pin.t[2])
    => pout.v[1] <= pout.v[2]

MonotonicWitness ==
  /\ pout.op = "found" /\ Len(pout.v) = 2 /\ SortedByStart(lyrics)
  /\ Len(lyrics) = 2 /\ pin.t[1] < pin.t[2]
  /\ pout.v[1] = 0 /\ pout.v[2] = 1

\* C12: whatever the sequence of play/pause toggles, space keys, lyric
\* clicks, progress-bar clicks and ended events, exactly one progress timer
\* runs when isPlaying is true and none runs when it is false.
ProgressTimerIffPlaying ==
  /\ nProgress = (IF isPlaying THEN 1 ELSE 0)
  /\ refLive = isPlaying

\* A lyric click while the audio plays, after playback had been started
\* again with a word active.
ProgressTimerWitness ==
  /\ lastEvent.op = "lyricClick"
  /\ capturedIndex # -1
  /\ capturedIndex # currentWordIndex
  /\ isPlaying /\ nProgress = 1

\* C14: after every playback tick the stored index is the mapper's result
\* for the audio time and the offset (so -1 before the first start).
IsTick == lastEvent.op \in {"tick", "timeupdate"}

ClickedWord == lyrics[lastEvent'.arg + 1]

LyricClickPlays ==
  /\ currentWordIndex' = lastEvent'.arg
  /\ isPlaying'
  /\ nProgress' = (IF isPlaying THEN nProgress ELSE nProgress + 1)

Clamped(t) == IF t < 0 THEN 0 ELSE IF t > AudioLen THEN AudioLen ELSE t

ClickLeavesAutoScrollOn ==
  lastEvent.op = "lyricClick" => autoScrollEnabled

\* C18: when the index changes, a line inside the viewport sets
\* autoScrollEnabled and gets one centered smooth scroll, a line outside
\* clears autoScrollEnabled and gets none; a scroll event clears it.
IndexChangeReaction ==
  /\ (lastEvent.op \in {"tick", "timeupdate", "lyricClick"} /\ lastEvent.changed)
       => IF lastEvent.visible
            THEN autoScrollEnabled /\ scrolled = 1
            ELSE ~autoScrollEnabled /\ scrolled = 0
  /\ lastEvent.op = "scroll" => ~autoScrollEnabled

\* A tick moves the index to a line outside the viewport.
IndexChangeWitness ==
  /\ lastEvent.op = "tick" /\ lastEvent.changed /\ ~lastEvent.visible
  /\ currentWordIndex = 1
  /\ ~autoScrollEnabled /\ scrolled = 0

\* C19: the lines are a partition of the token sequence: every line is
\* non-empty, the lines concatenated are the sequence itself, and every
\* token carries its 0-based position in the whole sequence.
RECURSIVE Flatten(_)
Flatten(ls) == IF ls = << >> THEN << >> ELSE Head(ls) \o Flatten(Tail(ls))

WithoutIndex(w) == [text |-> w.text, start |-> w.start, end |-> w.end]

LinesArePartition ==
  pout.op = "lines" =>
    LET flat == Flatten(pout.v)
    IN /\ \A l \in 1..Len(pout.v) : Len(pout.v[l]) > 0
       /\ Len(flat) = Len(lyrics)
       /\ \A k \in 1..Len(flat) :
            WithoutIndex(flat[k]) = lyrics[k] /\ flat[k].index = k - 1

\* A full first line, a line ended by a gap, and the last word on its own.
LinesWitness ==
  /\ pout.op = "lines"
  /\ Len(lyrics) = LineLimit + 2
  /\ Len(pout.v) = 3
  /\ Len(pout.v[1]) = LineLimit
  /\ lyrics[LineLimit + 2].start - lyrics[LineLimit + 1].end > LargeGap
  /\ ~endsWithPunctuation(lyrics[LineLimit + 2].text)

\* C20: a failure message is classified by the first matching rule in the
\* order download, conversion, separation; a message matching none is
\* shown unchanged (error, else message, else 'Processing failed').
Rules ==
  << [triggers |-> {"Downloaded file not found", "downloaded file is empty"},
      text |-> DownloadUnavailableText],
     [triggers |-> {"Failed to convert"}, text |-> ConversionFailedText],
     [triggers |-> {"Separation", "Demucs"}, text |-> SeparationFailedText] >>

Matches(msg, rule) == \E i \in 1..Len(msg) : msg[i] \in rule.triggers

RawMessage(data) ==
  IF data.error # << >> THEN data.error
  ELSE IF data.message # << >> THEN data.message
  ELSE << "Processing failed" >>

FirstMatch(msg) ==
  LET hits == { r \in 1..Len(Rules) : Matches(msg, Rules[r]) }
  IN IF hits = {} THEN msg
     ELSE Rules[CHOOSE r \in hits : \A q \in hits : r <= q].text

FirstMatchingRuleWins ==
  pout.op = "shown" => pout.v = FirstMatch(RawMessage(pin.data))

\* A message with triggers of two kinds, the later kind's trigger first.
ClassifyWitness ==
  /\ pout.op = "shown"
  /\ pin.data.error = << "Demucs", "Failed to convert" >>
  /\ pout.v = ConversionFailedText

\* C21: the timeout error is set only by the watchdog of an attempt that
\* is still processing: the watchdog of an attempt of the mounted player
\* that already ended ready (result stored) or failed, or that a Try Again
\* has followed, leaves the error as it is.
EndedEarlier(a) ==
  \/ attempts[a].stored
  \/ SawFailed(a)
  \/ \E b \in Attempts : b > a /\ attempts[b].session = attempts[a].session

StaleWatchdogIsSilent ==
  [][\A a \in Attempts :
       (WatchdogFires(a) /\ Mounted(a) /\ EndedEarlier(a)) => error' = error]_vars

\* C22: a token is the last of its line exactly when its text ends with
\* one of . ! ? , ; : or the next token starts more than 0.8 s after its
\* end, or it is the 12th of its line, or it is the last token.  So no
\* line has more than 12 tokens, a token ending in punctuation ends its
\* line, and no two neighbours in a line are more than 0.8 s apart.
Marks == {".", "!", "?", ",", ";", ":"}

EndsWithMark(w) == w.text # << >> /\ w.text[Len(w.text)] \in Marks

GapAfterWord(w) ==
  IF w.index + 2 <= Len(lyrics) THEN lyrics[w.index + 2].start - w.end ELSE 0

LineClosesExactlyOnTrigger ==
  pout.op = "lines" =>
    \A l \in 1..Len(pout.v) :
      LET line == pout.v[l]
      IN /\ Len(line) <= LineLimit
         /\ \A j \in 1..Len(line) :
              LET w == line[j]
                  trigger == \/ EndsWithMark(w)
                             \/ GapAfterWord(w) > LargeGap
                             \/ j = LineLimit
                             \/ w.index + 1 = Len(lyrics)
              IN /\ (j = Len(line)) <=> trigger
                 /\ EndsWithMark(w) => j = Len(line)
                 /\ j < Len(line) => line[j + 1].start - w.end <= LargeGap

\* A first line that holds a word followed by a gap of exactly 0.8 s and
\* ends, short of the limit, with a word ending in punctuation, and a
\* second line.
TriggerWitness ==
  /\ pout.op = "lines"
  /\ Len(pout.v) = 2
  /\ \E j \in 1..(Len(pout.v[1]) - 1) :
       pout.v[1][j + 1].start - pout.v[1][j].end = LargeGap
  /\ EndsWithMark(pout.v[1][Len(pout.v[1])])
  /\ Len(pout.v[1]) < LineLimit

\* C23: for tokens sorted by start, the tick that follows a lyric click on
\* token i, run at the audio position the click set, finds i again: it
\* does not move the highlight the click set.
TickAfterClick ==
  /\ lastEvent.op = "lyricClick"
  /\ lastEvent'.op \in {"tick", "timeupdate"}
  /\ audioTime' = audioTime

ClickThenTickKeepsIndex ==
  [][(TickAfterClick /\ SortedByStart(lyrics))
       => /\ findActiveToken(lyrics, audioTime, SyncOffset) = lastEvent.arg
          /\ currentWordIndex' = lastEvent.arg]_vars

====
